---------------------------- MODULE Spec2Model ----------------------------
(***************************************************************************)
(* The SMS text-normalisation and segment-accounting engine of             *)
(* src/message-maximizer/message-maximizer.py and the Lambda handler that  *)
(* drives it; the engine of its near-duplicate maximizer.py; and the       *)
(* sender-ID utility of src/sender-id/sender-id-multi-configure.py.        *)
(*                                                                         *)
(* A text is a sequence of Unicode code points (Python str, indexed by     *)
(* scalar value); a character is its code point (ord).  The character      *)
(* tables are transcribed whole from the source.                           *)
(***************************************************************************)
EXTENDS Integers, Sequences, FiniteSets, TLC

\* GSM 03.38 basic character set, as Unicode code points in source order.
GSM_BASIC_CHARS ==
  {
    64, 163, 36, 165, 232, 233, 249, 236, 242, 199, 10, 216, 248, 13, 197, 229,
    916, 95, 934, 915, 923, 937, 928, 936, 931, 920, 926, 27, 198, 230, 223, 201,
    32, 33, 34, 35, 164, 37, 38, 39, 40, 41, 42, 43, 44, 45, 46, 47,
    48, 49, 50, 51, 52, 53, 54, 55, 56, 57, 58, 59, 60, 61, 62, 63,
    161, 65, 66, 67, 68, 69, 70, 71, 72, 73, 74, 75, 76, 77, 78, 79,
    80, 81, 82, 83, 84, 85, 86, 87, 88, 89, 90, 196, 214, 209, 220, 167,
    191, 97, 98, 99, 100, 101, 102, 103, 104, 105, 106, 107, 108, 109, 110, 111,
    112, 113, 114, 115, 116, 117, 118, 119, 120, 121, 122, 228, 246, 241, 252, 224
  }

\* GSM extended characters (escape sequence, two units each).
GSM_EXTENDED_CHARS ==
  {12, 94, 123, 125, 92, 91, 126, 93, 124, 8364}

\* Strings kept when preserve_emojis is set. Every member is a string; the
\* heart is written in the source as the two code points U+2764 U+FE0F.
PRESERVE_UNICODE_CHARS ==
  {<<128640>>, <<128176>>, <<11088>>, <<10084, 65039>>, <<127881>>, <<128293>>, <<128161>>, <<9989>>, <<10060>>, <<9889>>}

\* Substitution table: code point -> replacement string, in source order.
UNICODE_TO_GSM_MAP_KeepsQuote ==
  (8220 :> <<8220>>) @@ (169 :> <<40, 67, 41>>) @@ (8203 :> <<>>)

UNICODE_TO_GSM_MAP ==
     (8220 :> <<34>>)             \* line 49: U+201C
  @@ (8221 :> <<34>>)             \* line 50: U+201D
  @@ (8216 :> <<39>>)             \* line 51: U+2018
  @@ (8217 :> <<39>>)             \* line 52: U+2019
  @@ (12318 :> <<34>>)            \* line 53: U+301E
  @@ (171 :> <<34>>)              \* line 54: U+00AB
  @@ (187 :> <<34>>)              \* line 55: U+00BB
  @@ (8249 :> <<60>>)             \* line 56: U+2039
  @@ (8250 :> <<62>>)             \* line 57: U+203A
  @@ (698 :> <<34>>)              \* line 58: U+02BA
  @@ (750 :> <<34>>)              \* line 59: U+02EE
  @@ (8223 :> <<34>>)             \* line 60: U+201F
  @@ (10077 :> <<34>>)            \* line 61: U+275D
  @@ (10078 :> <<34>>)            \* line 62: U+275E
  @@ (12317 :> <<34>>)            \* line 63: U+301D
  @@ (65282 :> <<34>>)            \* line 64: U+FF02
  @@ (699 :> <<39>>)              \* line 65: U+02BB
  @@ (712 :> <<39>>)              \* line 66: U+02C8
  @@ (700 :> <<39>>)              \* line 67: U+02BC
  @@ (701 :> <<39>>)              \* line 68: U+02BD
  @@ (697 :> <<39>>)              \* line 69: U+02B9
  @@ (8219 :> <<39>>)             \* line 70: U+201B
  @@ (65287 :> <<39>>)            \* line 71: U+FF07
  @@ (180 :> <<39>>)              \* line 72: U+00B4
  @@ (714 :> <<39>>)              \* line 73: U+02CA
  @@ (96 :> <<39>>)               \* line 74: U+0060
  @@ (715 :> <<39>>)              \* line 75: U+02CB
  @@ (10075 :> <<39>>)            \* line 76: U+275B
  @@ (10076 :> <<39>>)            \* line 77: U+275C
  @@ (8218 :> <<44>>)             \* line 78: U+201A
  @@ (8222 :> <<34>>)             \* line 79: U+201E
  @@ (8212 :> <<45>>)             \* line 82: U+2014
  @@ (8211 :> <<45>>)             \* line 83: U+2013
  @@ (8213 :> <<45>>)             \* line 84: U+2015
  @@ (8208 :> <<45>>)             \* line 85: U+2010
  @@ (8259 :> <<45>>)             \* line 86: U+2043
  @@ (8215 :> <<95>>)             \* line 87: U+2017
  @@ (9148 :> <<45>>)             \* line 88: U+23BC
  @@ (9149 :> <<45>>)             \* line 89: U+23BD
  @@ (65123 :> <<45>>)            \* line 90: U+FE63
  @@ (65293 :> <<45>>)            \* line 91: U+FF0D
  @@ (247 :> <<47>>)              \* line 94: U+00F7
  @@ (10744 :> <<47>>)            \* line 95: U+29F8
  @@ (8260 :> <<47>>)             \* line 96: U+2044
  @@ (8725 :> <<47>>)             \* line 97: U+2215
  @@ (65295 :> <<47>>)            \* line 98: U+FF0F
  @@ (10745 :> <<92>>)            \* line 99: U+29F9
  @@ (10741 :> <<92>>)            \* line 100: U+29F5
  @@ (65128 :> <<92>>)            \* line 101: U+FE68
  @@ (65340 :> <<92>>)            \* line 102: U+FF3C
  @@ (818 :> <<95>>)              \* line 105: U+0332
  @@ (65343 :> <<95>>)            \* line 106: U+FF3F
  @@ (8402 :> <<124>>)            \* line 107: U+20D2
  @@ (8403 :> <<124>>)            \* line 108: U+20D3
  @@ (8739 :> <<124>>)            \* line 109: U+2223
  @@ (65372 :> <<124>>)           \* line 110: U+FF5C
  @@ (9144 :> <<124>>)            \* line 111: U+23B8
  @@ (9145 :> <<124>>)            \* line 112: U+23B9
  @@ (9168 :> <<124>>)            \* line 113: U+23D0
  @@ (9116 :> <<124>>)            \* line 114: U+239C
  @@ (9119 :> <<124>>)            \* line 115: U+239F
  @@ (188 :> <<49, 47, 52>>)      \* line 118: U+00BC
  @@ (189 :> <<49, 47, 50>>)      \* line 119: U+00BD
  @@ (190 :> <<51, 47, 52>>)      \* line 120: U+00BE
  @@ (8230 :> <<46, 46, 46>>)     \* line 123: U+2026
  @@ (8226 :> <<42>>)             \* line 124: U+2022
  @@ (8252 :> <<33, 33>>)         \* line 125: U+203C
  @@ (8270 :> <<42>>)             \* line 126: U+204E
  @@ (8727 :> <<42>>)             \* line 127: U+2217
  @@ (8859 :> <<42>>)             \* line 128: U+229B
  @@ (10018 :> <<42>>)            \* line 129: U+2722
  @@ (10019 :> <<42>>)            \* line 130: U+2723
  @@ (10020 :> <<42>>)            \* line 131: U+2724
  @@ (10021 :> <<42>>)            \* line 132: U+2725
  @@ (10033 :> <<42>>)            \* line 133: U+2731
  @@ (10034 :> <<42>>)            \* line 134: U+2732
  @@ (10035 :> <<42>>)            \* line 135: U+2733
  @@ (10042 :> <<42>>)            \* line 136: U+273A
  @@ (10043 :> <<42>>)            \* line 137: U+273B
  @@ (10044 :> <<42>>)            \* line 138: U+273C
  @@ (10045 :> <<42>>)            \* line 139: U+273D
  @@ (10051 :> <<42>>)            \* line 140: U+2743
  @@ (10057 :> <<42>>)            \* line 141: U+2749
  @@ (10058 :> <<42>>)            \* line 142: U+274A
  @@ (10059 :> <<42>>)            \* line 143: U+274B
  @@ (10694 :> <<42>>)            \* line 144: U+29C6
  @@ (65121 :> <<42>>)            \* line 145: U+FE61
  @@ (65290 :> <<42>>)            \* line 146: U+FF0A
  @@ (65131 :> <<64>>)            \* line 149: U+FE6B
  @@ (65312 :> <<64>>)            \* line 150: U+FF20
  @@ (65129 :> <<36>>)            \* line 151: U+FE69
  @@ (65284 :> <<36>>)            \* line 152: U+FF04
  @@ (451 :> <<33>>)              \* line 153: U+01C3
  @@ (65045 :> <<33>>)            \* line 154: U+FE15
  @@ (65111 :> <<33>>)            \* line 155: U+FE57
  @@ (65281 :> <<33>>)            \* line 156: U+FF01
  @@ (65119 :> <<35>>)            \* line 157: U+FE5F
  @@ (65283 :> <<35>>)            \* line 158: U+FF03
  @@ (65130 :> <<37>>)            \* line 159: U+FE6A
  @@ (65285 :> <<37>>)            \* line 160: U+FF05
  @@ (65120 :> <<38>>)            \* line 161: U+FE60
  @@ (65286 :> <<38>>)            \* line 162: U+FF06
  @@ (65104 :> <<44>>)            \* line 163: U+FE50
  @@ (12289 :> <<44>>)            \* line 164: U+3001
  @@ (65105 :> <<44>>)            \* line 165: U+FE51
  @@ (65292 :> <<44>>)            \* line 166: U+FF0C
  @@ (65380 :> <<44>>)            \* line 167: U+FF64
  @@ (12290 :> <<46>>)            \* line 168: U+3002
  @@ (65106 :> <<46>>)            \* line 169: U+FE52
  @@ (65294 :> <<46>>)            \* line 170: U+FF0E
  @@ (65377 :> <<46>>)            \* line 171: U+FF61
  @@ (720 :> <<58>>)              \* line 172: U+02D0
  @@ (760 :> <<58>>)              \* line 173: U+02F8
  @@ (10626 :> <<58>>)            \* line 174: U+2982
  @@ (42889 :> <<58>>)            \* line 175: U+A789
  @@ (65043 :> <<58>>)            \* line 176: U+FE13
  @@ (65306 :> <<58>>)            \* line 177: U+FF1A
  @@ (8271 :> <<59>>)             \* line 178: U+204F
  @@ (65044 :> <<59>>)            \* line 179: U+FE14
  @@ (65108 :> <<59>>)            \* line 180: U+FE54
  @@ (65307 :> <<59>>)            \* line 181: U+FF1B
  @@ (65124 :> <<60>>)            \* line 182: U+FE64
  @@ (65308 :> <<60>>)            \* line 183: U+FF1C
  @@ (65125 :> <<62>>)            \* line 184: U+FE65
  @@ (65310 :> <<62>>)            \* line 185: U+FF1E
  @@ (65046 :> <<63>>)            \* line 186: U+FE16
  @@ (65110 :> <<63>>)            \* line 187: U+FE56
  @@ (65311 :> <<63>>)            \* line 188: U+FF1F
  @@ (10088 :> <<40>>)            \* line 191: U+2768
  @@ (10090 :> <<40>>)            \* line 192: U+276A
  @@ (65113 :> <<40>>)            \* line 193: U+FE59
  @@ (65288 :> <<40>>)            \* line 194: U+FF08
  @@ (10222 :> <<40>>)            \* line 195: U+27EE
  @@ (10629 :> <<40>>)            \* line 196: U+2985
  @@ (10089 :> <<41>>)            \* line 197: U+2769
  @@ (10091 :> <<41>>)            \* line 198: U+276B
  @@ (65114 :> <<41>>)            \* line 199: U+FE5A
  @@ (65289 :> <<41>>)            \* line 200: U+FF09
  @@ (10223 :> <<41>>)            \* line 201: U+27EF
  @@ (10630 :> <<41>>)            \* line 202: U+2986
  @@ (10100 :> <<123>>)           \* line 203: U+2774
  @@ (65115 :> <<123>>)           \* line 204: U+FE5B
  @@ (65371 :> <<123>>)           \* line 205: U+FF5B
  @@ (10101 :> <<125>>)           \* line 206: U+2775
  @@ (65116 :> <<125>>)           \* line 207: U+FE5C
  @@ (65373 :> <<125>>)           \* line 208: U+FF5D
  @@ (65339 :> <<91>>)            \* line 209: U+FF3B
  @@ (65341 :> <<93>>)            \* line 210: U+FF3D
  @@ (726 :> <<43>>)              \* line 213: U+02D6
  @@ (65122 :> <<43>>)            \* line 214: U+FE62
  @@ (65291 :> <<43>>)            \* line 215: U+FF0B
  @@ (710 :> <<94>>)              \* line 218: U+02C6
  @@ (770 :> <<94>>)              \* line 219: U+0302
  @@ (65342 :> <<94>>)            \* line 220: U+FF3E
  @@ (7629 :> <<94>>)             \* line 221: U+1DCD
  @@ (732 :> <<126>>)             \* line 222: U+02DC
  @@ (759 :> <<126>>)             \* line 223: U+02F7
  @@ (771 :> <<126>>)             \* line 224: U+0303
  @@ (816 :> <<126>>)             \* line 225: U+0330
  @@ (820 :> <<126>>)             \* line 226: U+0334
  @@ (8764 :> <<126>>)            \* line 227: U+223C
  @@ (65374 :> <<126>>)           \* line 228: U+FF5E
  @@ (65296 :> <<48>>)            \* line 231: U+FF10
  @@ (65297 :> <<49>>)            \* line 232: U+FF11
  @@ (65298 :> <<50>>)            \* line 233: U+FF12
  @@ (65299 :> <<51>>)            \* line 234: U+FF13
  @@ (65300 :> <<52>>)            \* line 235: U+FF14
  @@ (65301 :> <<53>>)            \* line 236: U+FF15
  @@ (65302 :> <<54>>)            \* line 237: U+FF16
  @@ (65303 :> <<55>>)            \* line 238: U+FF17
  @@ (65304 :> <<56>>)            \* line 239: U+FF18
  @@ (65305 :> <<57>>)            \* line 240: U+FF19
  @@ (65313 :> <<65>>)            \* line 243: U+FF21
  @@ (65314 :> <<66>>)            \* line 244: U+FF22
  @@ (65315 :> <<67>>)            \* line 245: U+FF23
  @@ (65316 :> <<68>>)            \* line 246: U+FF24
  @@ (65317 :> <<69>>)            \* line 247: U+FF25
  @@ (65318 :> <<70>>)            \* line 248: U+FF26
  @@ (65319 :> <<71>>)            \* line 249: U+FF27
  @@ (65320 :> <<72>>)            \* line 250: U+FF28
  @@ (65321 :> <<73>>)            \* line 251: U+FF29
  @@ (65322 :> <<74>>)            \* line 252: U+FF2A
  @@ (65323 :> <<75>>)            \* line 253: U+FF2B
  @@ (65324 :> <<76>>)            \* line 254: U+FF2C
  @@ (65325 :> <<77>>)            \* line 255: U+FF2D
  @@ (65326 :> <<78>>)            \* line 256: U+FF2E
  @@ (65327 :> <<79>>)            \* line 257: U+FF2F
  @@ (65328 :> <<80>>)            \* line 258: U+FF30
  @@ (65329 :> <<81>>)            \* line 259: U+FF31
  @@ (65330 :> <<82>>)            \* line 260: U+FF32
  @@ (65331 :> <<83>>)            \* line 261: U+FF33
  @@ (65332 :> <<84>>)            \* line 262: U+FF34
  @@ (65333 :> <<85>>)            \* line 263: U+FF35
  @@ (65334 :> <<86>>)            \* line 264: U+FF36
  @@ (65335 :> <<87>>)            \* line 265: U+FF37
  @@ (65336 :> <<88>>)            \* line 266: U+FF38
  @@ (65337 :> <<89>>)            \* line 267: U+FF39
  @@ (65338 :> <<90>>)            \* line 268: U+FF3A
  @@ (7424 :> <<65>>)             \* line 271: U+1D00
  @@ (665 :> <<66>>)              \* line 272: U+0299
  @@ (7428 :> <<67>>)             \* line 273: U+1D04
  @@ (7429 :> <<68>>)             \* line 274: U+1D05
  @@ (7431 :> <<69>>)             \* line 275: U+1D07
  @@ (42800 :> <<70>>)            \* line 276: U+A730
  @@ (610 :> <<71>>)              \* line 277: U+0262
  @@ (668 :> <<72>>)              \* line 278: U+029C
  @@ (618 :> <<73>>)              \* line 279: U+026A
  @@ (7434 :> <<74>>)             \* line 280: U+1D0A
  @@ (7435 :> <<75>>)             \* line 281: U+1D0B
  @@ (671 :> <<76>>)              \* line 282: U+029F
  @@ (7437 :> <<77>>)             \* line 283: U+1D0D
  @@ (628 :> <<78>>)              \* line 284: U+0274
  @@ (7439 :> <<79>>)             \* line 285: U+1D0F
  @@ (7448 :> <<80>>)             \* line 286: U+1D18
  @@ (640 :> <<82>>)              \* line 287: U+0280
  @@ (42801 :> <<83>>)            \* line 288: U+A731
  @@ (7451 :> <<84>>)             \* line 289: U+1D1B
  @@ (7452 :> <<85>>)             \* line 290: U+1D1C
  @@ (7456 :> <<86>>)             \* line 291: U+1D20
  @@ (7457 :> <<87>>)             \* line 292: U+1D21
  @@ (655 :> <<89>>)              \* line 293: U+028F
  @@ (7458 :> <<90>>)             \* line 294: U+1D22
  @@ (160 :> <<32>>)              \* line 297: U+00A0
  @@ (8192 :> <<32>>)             \* line 298: U+2000
  @@ (8193 :> <<32>>)             \* line 299: U+2001
  @@ (8194 :> <<32>>)             \* line 300: U+2002
  @@ (8195 :> <<32>>)             \* line 301: U+2003
  @@ (8196 :> <<32>>)             \* line 302: U+2004
  @@ (8197 :> <<32>>)             \* line 303: U+2005
  @@ (8198 :> <<32>>)             \* line 304: U+2006
  @@ (8199 :> <<32>>)             \* line 305: U+2007
  @@ (8200 :> <<32>>)             \* line 306: U+2008
  @@ (8201 :> <<32>>)             \* line 307: U+2009
  @@ (8202 :> <<32>>)             \* line 308: U+200A
  @@ (8203 :> <<>>)               \* line 309: U+200B
  @@ (8239 :> <<32>>)             \* line 310: U+202F
  @@ (8287 :> <<32>>)             \* line 311: U+205F
  @@ (8232 :> <<32>>)             \* line 312: U+2028
  @@ (8233 :> <<32>>)             \* line 313: U+2029
  @@ (8288 :> <<>>)               \* line 314: U+2060
  @@ (12288 :> <<32>>)            \* line 315: U+3000
  @@ (65279 :> <<>>)              \* line 316: U+FEFF
  @@ (8482 :> <<84, 77>>)         \* line 319: U+2122
  @@ (169 :> <<40, 67, 41>>)      \* line 320: U+00A9
  @@ (174 :> <<40, 82, 41>>)      \* line 321: U+00AE
  @@ (176 :> <<100, 101, 103>>)   \* line 322: U+00B0
  @@ (8804 :> <<60, 61>>)         \* line 323: U+2264
  @@ (8805 :> <<62, 61>>)         \* line 324: U+2265
  @@ (8800 :> <<33, 61>>)         \* line 325: U+2260
  @@ (177 :> <<43, 47, 45>>)      \* line 326: U+00B1

\* ------------------------------------------------------------------------
\* Strings of the source, as code points.
Ellipsis == <<46, 46, 46>>                                      \* "..."
QuestionMark == <<63>>                                          \* '?'
ALL_UNICODE == <<65, 76, 76, 95, 85, 78, 73, 67, 79, 68, 69>>   \* 'ALL_UNICODE'
PRESERVED == <<80, 82, 69, 83, 69, 82, 86, 69, 68>>             \* 'PRESERVED'
SPACE == 32

\* An absent optional argument (Python None) is the empty tuple, a present
\* one the one-element tuple holding it.
None == <<>>
Some(v) == <<v>>

\* ------------------------------------------------------------------------
\* is_gsm_character(char): membership of a string in the two literal sets.
\* Every member of both sets is a one-character string, so a string of any
\* other length is not a member.
is_gsm_character_Ascii(char) ==
  /\ Len(char) = 1
  /\ char[1] <= 127

is_gsm_character(char) ==
  /\ Len(char) = 1
  /\ (char[1] \in GSM_BASIC_CHARS \/ char[1] \in GSM_EXTENDED_CHARS)

\* message.encode('ascii') succeeds: no code point above 127.
EncodesAscii_GsmMembers(message) ==
  \A i \in 1..Len(message) :
    message[i] \in GSM_BASIC_CHARS \/ message[i] \in GSM_EXTENDED_CHARS

EncodesAscii(message) == \A i \in 1..Len(message) : message[i] <= 127

\* str.rfind(' '): zero-based index of the last space, -1 when there is none.
rfind(s, ch) ==
  LET hits == {i \in 1..Len(s) : s[i] = ch}
  IN  IF hits = {} THEN -1 ELSE (CHOOSE i \in hits : \A j \in hits : j <= i) - 1

\* The GSM-7 length loop of calculate_segments over message[lo..hi]: 2 for an
\* extended character, 1 for any other.  The sum is taken by halves so that
\* its evaluation depth stays logarithmic in the length.
RECURSIVE GsmLength(_, _, _)
GsmLength(message, lo, hi) ==
  IF lo > hi THEN 0
  ELSE IF lo = hi
       THEN (IF message[lo] \in GSM_EXTENDED_CHARS THEN 2 ELSE 1)
       ELSE LET mid == (lo + hi) \div 2
            IN  GsmLength(message, lo, mid) + GsmLength(message, mid + 1, hi)

\* The UCS-2 branch of calculate_segments: segments for length characters.
Ucs2Segments_GsmCapacity(length) ==
  IF length <= 160 THEN 1 ELSE (length + 152) \div 153

Ucs2Segments(length) ==
  IF length <= 70 THEN 1 ELSE (length + 66) \div 67

\* The GSM-7 branch of calculate_segments: segments for length units.
Gsm7Segments_Strict(length) ==
  IF length < 160 THEN 1 ELSE (length + 152) \div 153

Gsm7Segments(length) ==
  IF length <= 160 THEN 1 ELSE (length + 152) \div 153

\* calculate_segments(message) -> (segments, encoding)
calculate_segments(message) ==
  LET has_unicode == ~EncodesAscii(message)
  IN  IF has_unicode
      THEN [segments |-> Ucs2Segments(Len(message)),
            encoding |-> "UCS-2 (Unicode)"]
      ELSE [segments |-> Gsm7Segments(GsmLength(message, 1, Len(message))),
            encoding |-> "GSM-7"]

\* truncate_message_to_segments(message, max_segments).  The float test
\* last_space > max_chars * 0.8 is the integer test 5*last_space > 4*max_chars
\* (the two agree for every max_segments in 0..59 and every index).
truncate_message_to_segments_AtOrAbove(message, max_segments) ==
  LET max_chars == IF max_segments = 1 THEN 160 ELSE 160 + (max_segments - 1) * 153
  IN  IF Len(message) <= max_chars THEN message
      ELSE LET truncated == SubSeq(message, 1, max_chars - 3)
               last_space == rfind(truncated, SPACE)
               cut == IF 5 * last_space >= 4 * max_chars
                      THEN SubSeq(truncated, 1, last_space) ELSE truncated
           IN  cut \o Ellipsis

truncate_message_to_segments_NoRoom(message, max_segments) ==
  LET max_chars == IF max_segments = 1 THEN 160 ELSE 160 + (max_segments - 1) * 153
  IN  IF Len(message) <= max_chars THEN message
      ELSE LET truncated == SubSeq(message, 1, max_chars)
               last_space == rfind(truncated, SPACE)
               cut == IF 5 * last_space > 4 * max_chars
                      THEN SubSeq(truncated, 1, last_space) ELSE truncated
           IN  cut \o Ellipsis

truncate_message_to_segments(message, max_segments) ==
  LET max_chars == IF max_segments = 1 THEN 160
                   ELSE 160 + (max_segments - 1) * 153
  IN  IF Len(message) <= max_chars THEN message
      ELSE LET truncated == SubSeq(message, 1, max_chars - 3)
               last_space == rfind(truncated, SPACE)
               cut == IF 5 * last_space > 4 * max_chars
                      THEN SubSeq(truncated, 1, last_space)
                      ELSE truncated
           IN  cut \o Ellipsis

\* ------------------------------------------------------------------------
\* ''.join(c for c in unicodedata.normalize('NFD', char)
\*         if not unicodedata.combining(c))
\* for the characters the model draws (the Unicode database gives these
\* decompositions); a character without a canonical decomposition is its own
\* result, a combining mark leaves the empty string.
StripCombining(char) ==
  CASE char = 225   -> <<97>>            \* a-acute: a + U+0301
    [] char = 233   -> <<101>>          \* e-acute: e + U+0301
    [] char = 911   -> <<937>>          \* Omega-tonos: Omega + U+0301
    [] char = 940   -> <<945>>          \* alpha-tonos: alpha + U+0301
    [] char = 196   -> <<65>>           \* capital a with diaeresis: A + U+0308
    [] char = 197   -> <<65>>           \* capital a with ring above: A + U+030A
    [] char = 199   -> <<67>>           \* capital c with cedilla: C + U+0327
    [] char = 201   -> <<69>>           \* capital e with acute: E + U+0301
    [] char = 209   -> <<78>>           \* capital n with tilde: N + U+0303
    [] char = 214   -> <<79>>           \* capital o with diaeresis: O + U+0308
    [] char = 220   -> <<85>>           \* capital u with diaeresis: U + U+0308
    [] char = 224   -> <<97>>           \* small a with grave: a + U+0300
    [] char = 228   -> <<97>>           \* small a with diaeresis: a + U+0308
    [] char = 229   -> <<97>>           \* small a with ring above: a + U+030A
    [] char = 232   -> <<101>>          \* small e with grave: e + U+0300
    [] char = 236   -> <<105>>          \* small i with grave: i + U+0300
    [] char = 241   -> <<110>>          \* small n with tilde: n + U+0303
    [] char = 242   -> <<111>>          \* small o with grave: o + U+0300
    [] char = 246   -> <<111>>          \* small o with diaeresis: o + U+0308
    [] char = 249   -> <<117>>          \* small u with grave: u + U+0300
    [] char = 252   -> <<117>>          \* small u with diaeresis: u + U+0308
    [] char = 769   -> <<>>             \* U+0301 combining acute accent
    [] char = 44032 -> <<4352, 4449>>   \* Hangul GA: two conjoining jamo
    [] OTHER        -> <<char>>

\* The last branch of the loop of convert_to_gsm (a character that is not
\* GSM, not preserved and not in the table): its base character when that
\* differs from it and is GSM, else '?'.  The except branch appends the same
\* '?' record.
NormalizeFallback_NoGsmTest(char, i) ==
  LET ascii_char == StripCombining(char)
  IN  IF ascii_char # <<char>>
      THEN [out |-> ascii_char,
            recs |-> << [original |-> <<char>>, replacement |-> ascii_char,
                         position |-> i] >>]
      ELSE [out |-> QuestionMark,
            recs |-> << [original |-> <<char>>, replacement |-> QuestionMark,
                         position |-> i] >>]

NormalizeFallback(char, i) ==
  LET ascii_char == StripCombining(char)
  IN  IF ascii_char # <<char>> /\ is_gsm_character(ascii_char)
      THEN [out |-> ascii_char,
            recs |-> << [original |-> <<char>>, replacement |-> ascii_char,
                         position |-> i] >>]
      ELSE [out |-> QuestionMark,
            recs |-> << [original |-> <<char>>, replacement |-> QuestionMark,
                         position |-> i] >>]

\* One iteration of the loop of convert_to_gsm, for the character char at
\* zero-based position i: the text appended to converted_message and the
\* records appended to replacements.
ConvertChar_OneBased(char, i, preserve_emojis) ==
  IF is_gsm_character(<<char>>)
  THEN [out |-> <<char>>, recs |-> <<>>]
  ELSE IF preserve_emojis /\ <<char>> \in PRESERVE_UNICODE_CHARS
  THEN [out |-> <<char>>,
        recs |-> << [original |-> <<char>>, replacement |-> <<char>>,
                     position |-> i + 1, preserved |-> TRUE,
                     note |-> "Preserved Unicode character (forces UCS-2 encoding)"] >>]
  ELSE IF char \in DOMAIN UNICODE_TO_GSM_MAP
  THEN LET replacement == UNICODE_TO_GSM_MAP[char]
       IN  [out |-> replacement,
            recs |-> << [original |-> <<char>>, replacement |-> replacement,
                         position |-> i + 1] >>]
  ELSE NormalizeFallback(char, i + 1)

ConvertChar(char, i, preserve_emojis) ==
  IF is_gsm_character(<<char>>)
  THEN [out |-> <<char>>, recs |-> <<>>]
  ELSE IF preserve_emojis /\ <<char>> \in PRESERVE_UNICODE_CHARS
  THEN [out |-> <<char>>,
        recs |-> << [original |-> <<char>>, replacement |-> <<char>>,
                     position |-> i, preserved |-> TRUE,
                     note |-> "Preserved Unicode character (forces UCS-2 encoding)"] >>]
  ELSE IF char \in DOMAIN UNICODE_TO_GSM_MAP
  THEN LET replacement == UNICODE_TO_GSM_MAP[char]
       IN  [out |-> replacement,
            recs |-> << [original |-> <<char>>, replacement |-> replacement,
                         position |-> i] >>]
  ELSE NormalizeFallback(char, i)

\* The loop "for i, char in enumerate(message)" over message[lo..hi]: the
\* iterations' outputs and records concatenated in input order (by halves,
\* as in GsmLength).
RECURSIVE ConvertLoop(_, _, _, _)
ConvertLoop(message, preserve_emojis, lo, hi) ==
  IF lo > hi THEN [out |-> <<>>, recs |-> <<>>]
  ELSE IF lo = hi THEN ConvertChar(message[lo], lo - 1, preserve_emojis)
  ELSE LET mid == (lo + hi) \div 2
           l == ConvertLoop(message, preserve_emojis, lo, mid)
           r == ConvertLoop(message, preserve_emojis, mid + 1, hi)
       IN  [out |-> l.out \o r.out, recs |-> l.recs \o r.recs]

\* The test that opens convert_to_gsm: a limit is given and the unmodified
\* message is within it.
AutoPreserves_Strict(original_segments, max_segments) ==
  max_segments # None /\ original_segments < max_segments[1]

AutoPreserves(original_segments, max_segments) ==
  max_segments # None /\ original_segments <= max_segments[1]

\* convert_to_gsm(message, preserve_emojis, max_segments) -> dict.  The two
\* f-string notes carry original_segments and max_segments, which the dict
\* also holds as segments_if_preserved and max_segments_allowed.
convert_to_gsm(message, preserve_emojis, max_segments) ==
  LET original_segments == calculate_segments(message).segments
  IN  IF AutoPreserves(original_segments, max_segments)
      THEN [converted_message |-> message,
            replacements |-> << [original |-> ALL_UNICODE,
                                 replacement |-> PRESERVED,
                                 position |-> -1,
                                 preserved |-> TRUE,
                                 note |-> "All Unicode preserved - message fits"] >>,
            original_length |-> Len(message),
            converted_length |-> Len(message),
            auto_preserved |-> TRUE,
            segments_if_preserved |-> original_segments,
            max_segments_allowed |-> max_segments[1]]
      ELSE LET loop == ConvertLoop(message, preserve_emojis, 1, Len(message))
               converted_message == loop.out
               result == [converted_message |-> converted_message,
                          replacements |-> loop.recs,
                          original_length |-> Len(message),
                          converted_length |-> Len(converted_message),
                          auto_preserved |-> FALSE]
           IN  IF max_segments # None
               THEN result @@
                    [segments_if_preserved |-> original_segments,
                     segments_after_conversion |->
                       calculate_segments(converted_message).segments,
                     max_segments_allowed |-> max_segments[1],
                     conversion_reason |-> "Conversion applied"]
               ELSE result

\* ------------------------------------------------------------------------
\* src/message-maximizer/maximizer.py, the second handler file.  Its functions
\* are those of message-maximizer.py line for line and its substitution table
\* is the same (the keys are written as escapes); its three character sets
\* are written as literals whose non-ASCII members are stored in the file as
\* several code points each, so here every member is a string.

\* GSM_BASIC_CHARS of maximizer.py, in source order (8 to a line).
maximizer_GSM_BASIC_CHARS ==
  {
    <<64>>, <<172, 163>>, <<36>>, <<172, 8226>>, <<8730, 174>>, <<8730, 169>>, <<8730, 960>>, <<8730, 168>>,
    <<8730, 8804>>, <<8730, 225>>, <<10>>, <<8730, 242>>, <<8730, 8719>>, <<13>>, <<8730, 214>>, <<8730, 8226>>,
    <<338, 238>>, <<95>>, <<338, 182>>, <<338, 236>>, <<338, 245>>, <<338, 169>>, <<338, 8224>>, <<338, 174>>,
    <<338, 163>>, <<338, 242>>, <<338, 251>>, <<27>>, <<8730, 220>>, <<8730, 182>>, <<8730, 252>>, <<8730, 226>>,
    <<32>>, <<33>>, <<34>>, <<35>>, <<172, 167>>, <<37>>, <<38>>, <<39>>,
    <<40>>, <<41>>, <<42>>, <<43>>, <<44>>, <<45>>, <<46>>, <<47>>,
    <<48>>, <<49>>, <<50>>, <<51>>, <<52>>, <<53>>, <<54>>, <<55>>,
    <<56>>, <<57>>, <<58>>, <<59>>, <<60>>, <<61>>, <<62>>, <<63>>,
    <<172, 176>>, <<65>>, <<66>>, <<67>>, <<68>>, <<69>>, <<70>>, <<71>>,
    <<72>>, <<73>>, <<74>>, <<75>>, <<76>>, <<77>>, <<78>>, <<79>>,
    <<80>>, <<81>>, <<82>>, <<83>>, <<84>>, <<85>>, <<86>>, <<87>>,
    <<88>>, <<89>>, <<90>>, <<8730, 209>>, <<8730, 241>>, <<8730, 235>>, <<8730, 250>>, <<172, 223>>,
    <<172, 248>>, <<97>>, <<98>>, <<99>>, <<100>>, <<101>>, <<102>>, <<103>>,
    <<104>>, <<105>>, <<106>>, <<107>>, <<108>>, <<109>>, <<110>>, <<111>>,
    <<112>>, <<113>>, <<114>>, <<115>>, <<116>>, <<117>>, <<118>>, <<119>>,
    <<120>>, <<121>>, <<122>>, <<8730, 167>>, <<8730, 8706>>, <<8730, 177>>, <<8730, 186>>, <<8730, 8224>>
  }

\* GSM_EXTENDED_CHARS of maximizer.py.
maximizer_GSM_EXTENDED_CHARS ==
  {
    <<12>>, <<94>>, <<123>>, <<125>>, <<92>>, <<91>>, <<126>>, <<93>>, <<124>>, <<8218, 199, 168>>
  }

\* PRESERVE_UNICODE_CHARS of maximizer.py.
maximizer_PRESERVE_UNICODE_CHARS ==
  {
    <<63743, 252, 246, 196>>, <<63743, 252, 237, 8734>>, <<8218, 8800, 234>>,
    <<8218, 249, 167, 212, 8719, 232>>, <<63743, 252, 233, 226>>, <<63743, 252, 238, 8226>>,
    <<63743, 252, 237, 176>>, <<8218, 250, 214>>, <<8218, 249, 229>>,
    <<8218, 246, 176>>
  }

\* is_gsm_character(char) of maximizer.py: membership of the string char.
maximizer_is_gsm_character(char) ==
  char \in maximizer_GSM_BASIC_CHARS \/ char \in maximizer_GSM_EXTENDED_CHARS

\* The GSM-7 length loop of calculate_segments of maximizer.py.
RECURSIVE maximizer_GsmLength(_, _, _)
maximizer_GsmLength(message, lo, hi) ==
  IF lo > hi THEN 0
  ELSE IF lo = hi
       THEN (IF <<message[lo]>> \in maximizer_GSM_EXTENDED_CHARS THEN 2 ELSE 1)
       ELSE LET mid == (lo + hi) \div 2
            IN  maximizer_GsmLength(message, lo, mid)
                  + maximizer_GsmLength(message, mid + 1, hi)

\* calculate_segments(message) of maximizer.py.
maximizer_calculate_segments(message) ==
  LET has_unicode == ~EncodesAscii(message)
  IN  IF has_unicode
      THEN [segments |-> Ucs2Segments(Len(message)),
            encoding |-> "UCS-2 (Unicode)"]
      ELSE [segments |-> Gsm7Segments(maximizer_GsmLength(message, 1, Len(message))),
            encoding |-> "GSM-7"]

\* The last branch of the loop of convert_to_gsm of maximizer.py.
maximizer_NormalizeFallback(char, i) ==
  LET ascii_char == StripCombining(char)
  IN  IF ascii_char # <<char>> /\ maximizer_is_gsm_character(ascii_char)
      THEN [out |-> ascii_char,
            recs |-> << [original |-> <<char>>, replacement |-> ascii_char,
                         position |-> i] >>]
      ELSE [out |-> QuestionMark,
            recs |-> << [original |-> <<char>>, replacement |-> QuestionMark,
                         position |-> i] >>]

\* One iteration of the loop of convert_to_gsm of maximizer.py.
maximizer_ConvertChar(char, i, preserve_emojis) ==
  IF maximizer_is_gsm_character(<<char>>)
  THEN [out |-> <<char>>, recs |-> <<>>]
  ELSE IF preserve_emojis /\ <<char>> \in maximizer_PRESERVE_UNICODE_CHARS
  THEN [out |-> <<char>>,
        recs |-> << [original |-> <<char>>, replacement |-> <<char>>,
                     position |-> i, preserved |-> TRUE,
                     note |-> "Preserved Unicode character (forces UCS-2 encoding)"] >>]
  ELSE IF char \in DOMAIN UNICODE_TO_GSM_MAP
  THEN LET replacement == UNICODE_TO_GSM_MAP[char]
       IN  [out |-> replacement,
            recs |-> << [original |-> <<char>>, replacement |-> replacement,
                         position |-> i] >>]
  ELSE maximizer_NormalizeFallback(char, i)

\* The loop of convert_to_gsm of maximizer.py over message[lo..hi].
RECURSIVE maximizer_ConvertLoop(_, _, _, _)
maximizer_ConvertLoop(message, preserve_emojis, lo, hi) ==
  IF lo > hi THEN [out |-> <<>>, recs |-> <<>>]
  ELSE IF lo = hi THEN maximizer_ConvertChar(message[lo], lo - 1, preserve_emojis)
  ELSE LET mid == (lo + hi) \div 2
           l == maximizer_ConvertLoop(message, preserve_emojis, lo, mid)
           r == maximizer_ConvertLoop(message, preserve_emojis, mid + 1, hi)
       IN  [out |-> l.out \o r.out, recs |-> l.recs \o r.recs]

\* convert_to_gsm(message, preserve_emojis, max_segments) of maximizer.py.
maximizer_convert_to_gsm(message, preserve_emojis, max_segments) ==
  LET original_segments == maximizer_calculate_segments(message).segments
  IN  IF AutoPreserves(original_segments, max_segments)
      THEN [converted_message |-> message,
            replacements |-> << [original |-> ALL_UNICODE,
                                 replacement |-> PRESERVED,
                                 position |-> -1,
                                 preserved |-> TRUE,
                                 note |-> "All Unicode preserved - message fits"] >>,
            original_length |-> Len(message),
            converted_length |-> Len(message),
            auto_preserved |-> TRUE,
            segments_if_preserved |-> original_segments,
            max_segments_allowed |-> max_segments[1]]
      ELSE LET loop == maximizer_ConvertLoop(message, preserve_emojis, 1, Len(message))
               converted_message == loop.out
               result == [converted_message |-> converted_message,
                          replacements |-> loop.recs,
                          original_length |-> Len(message),
                          converted_length |-> Len(converted_message),
                          auto_preserved |-> FALSE]
           IN  IF max_segments # None
               THEN result @@
                    [segments_if_preserved |-> original_segments,
                     segments_after_conversion |->
                       maximizer_calculate_segments(converted_message).segments,
                     max_segments_allowed |-> max_segments[1],
                     conversion_reason |-> "Conversion applied"]
               ELSE result

\* ------------------------------------------------------------------------
\* src/sender-id/sender-id-multi-configure.py, the bulk registration of a
\* sender ID.  sender_id is a text (code points); a country code is an opaque
\* string, so str.strip and str.upper are given on the strings drawn.

\* str.isalnum on one character, for the ASCII characters drawn.
IsAlnum(c) == c \in (48..57) \cup (65..90) \cup (97..122)
\* sender_id.replace('_', '').replace('-', '')
NotSeparator(c) == c \notin {95, 45}

\* validate_input(sender_id, countries): the message of the ValueError it
\* raises, "" when it returns True.
validate_input(sender_id, countries) ==
  IF ~(1 <= Len(sender_id) /\ Len(sender_id) <= 11)
  THEN "Sender ID must be between 1 and 11 characters"
  ELSE LET bare == SelectSeq(sender_id, NotSeparator)
       IN  IF bare = <<>> \/ \E i \in 1..Len(bare) : ~IsAlnum(bare[i])
           THEN "Sender ID can only contain alphanumeric characters, underscore, and hyphen"
           ELSE IF countries = <<>>
           THEN "At least one country code must be provided"
           ELSE ""

\* c.strip() and c.upper() on the country strings drawn.
strip(c) ==
  CASE c = " de " -> "de"
    [] c = " "    -> ""
    [] OTHER      -> c
upper(c) ==
  CASE c = "us" -> "US"
    [] c = "de" -> "DE"
    [] OTHER    -> c

\* [c.strip().upper() for c in event['countries'] if c.strip()]
NonBlank(c) == strip(c) # ""
StrippedUpper(countries) ==
  LET kept == SelectSeq(countries, NonBlank)
  IN  [i \in 1..Len(kept) |-> upper(strip(kept[i]))]

\* request_params of one iteration (the random ClientToken left out).
RequestParams(sender_id, country, message_types) ==
  [SenderId |-> sender_id,
   IsoCountryCode |-> upper(country),
   MessageTypes |-> message_types,
   DeletionProtectionEnabled |-> FALSE]

\* The entry one iteration appends to results: the try branch when the
\* provider call returned (ok), the except branch when it raised.
CountryResult(country, ok) ==
  IF ok
  THEN [Country |-> country, Status |-> "Success",
        SenderIdArn |-> "SenderIdArn", MonthlyLeasingPrice |-> "MonthlyLeasingPrice"]
  ELSE [Country |-> country, Status |-> "Failed", Error |-> "ClientError"]

\* The loop "for i, country in enumerate(countries)" is over: every country
\* has its entry.
LoopDone_StopsAtFailure(results, countries) ==
  \/ Len(results) = Len(countries)
  \/ results # <<>> /\ results[Len(results)].Status = "Failed"

LoopDone(results, countries) == Len(results) = Len(countries)

\* The 200 response of lambda_handler with its summary.
SummaryResponse(countries, results) ==
  LET successful == Cardinality({i \in 1..Len(results) : results[i].Status = "Success"})
  IN  [statusCode |-> 200,
       body |-> [results |-> results,
                 summary |-> [total |-> Len(countries),
                              successful |-> successful,
                              failed |-> Len(countries) - successful]]]

\* ------------------------------------------------------------------------
\* lambda_handler.  request_body is the parsed JSON object; an opaque string
\* field that is missing, null or empty is "" (the handler only tests its
\* truth), and so is a missing or empty message, <<>>.  json.dumps(body) is
\* carried as the body itself; the constant headers are left out.

\* The branch "if not enable_conversion": the message as it is, counted
\* inline.
UnconvertedAnalysis(message) ==
  LET has_unicode == ~EncodesAscii(message)
      message_length == Len(message)
  IN  [conversion |-> [converted_message |-> message,
                       replacements |-> <<>>,
                       original_length |-> Len(message),
                       converted_length |-> Len(message)],
       segments |-> IF has_unicode
                    THEN (IF message_length <= 70 THEN 1
                          ELSE (message_length + 66) \div 67)
                    ELSE (IF message_length <= 160 THEN 1
                          ELSE (message_length + 152) \div 153),
       encoding_type |-> IF has_unicode THEN "UCS-2 (Unicode)"
                         ELSE "GSM-7 (ASCII only)"]

\* The 400 response of the 'reject' action.
RejectResponse_ReportsLimit(segments, max_segments, conversion, encoding_type) ==
  [statusCode |-> 400,
   body |-> [error |-> "Message exceeds segment limit",
             action |-> "segment_limit_exceeded",
             current_segments |-> max_segments[1],
             max_segments_allowed |-> max_segments[1],
             message_length |-> Len(conversion.converted_message),
             encoding |-> encoding_type]]

RejectResponse(segments, max_segments, conversion, encoding_type) ==
  [statusCode |-> 400,
   body |-> [error |-> "Message exceeds segment limit",
             action |-> "segment_limit_exceeded",
             current_segments |-> segments,
             max_segments_allowed |-> max_segments[1],
             message_length |-> Len(conversion.converted_message),
             encoding |-> encoding_type]]

\* The 'truncate' action: the conversion dict updated in place and the
\* segments recomputed.
TruncateConversion(conversion, max_segments) ==
  LET original_message == conversion.converted_message
      truncated_message == truncate_message_to_segments(original_message, max_segments[1])
      recount == calculate_segments(truncated_message)
  IN  [conversion |-> [conversion EXCEPT !.converted_message = truncated_message,
                                         !.converted_length = Len(truncated_message)]
                      @@ [truncated |-> TRUE,
                          truncated_from |-> Len(original_message),
                          truncated_to |-> Len(truncated_message)],
       segments |-> recount.segments,
       encoding_type |-> recount.encoding]

\* The else branch: conversion, analysis and the segment limit.  rejected
\* says that the handler returns response here.
ConvertedAnalysis_WarnTruncates(message, preserve_emojis, max_segments, segment_limit_action) ==
  LET conversion == convert_to_gsm(message, preserve_emojis, max_segments)
      counted == calculate_segments(conversion.converted_message)
      kept == [rejected |-> FALSE, conversion |-> conversion,
               segments |-> counted.segments, encoding_type |-> counted.encoding]
  IN  IF max_segments # None /\ counted.segments > max_segments[1]
      THEN IF segment_limit_action = "reject"
           THEN [rejected |-> TRUE,
                 response |-> RejectResponse(counted.segments, max_segments,
                                             conversion, counted.encoding)]
           ELSE [rejected |-> FALSE] @@ TruncateConversion(conversion, max_segments)
      ELSE kept

ConvertedAnalysis_AtLimit(message, preserve_emojis, max_segments, segment_limit_action) ==
  LET conversion == convert_to_gsm(message, preserve_emojis, max_segments)
      counted == calculate_segments(conversion.converted_message)
      kept == [rejected |-> FALSE, conversion |-> conversion,
               segments |-> counted.segments, encoding_type |-> counted.encoding]
  IN  IF max_segments # None /\ counted.segments >= max_segments[1]
      THEN IF segment_limit_action = "reject"
           THEN [rejected |-> TRUE,
                 response |-> RejectResponse(counted.segments, max_segments,
                                             conversion, counted.encoding)]
           ELSE IF segment_limit_action = "truncate"
           THEN [rejected |-> FALSE] @@ TruncateConversion(conversion, max_segments)
           ELSE kept
      ELSE kept

ConvertedAnalysis(message, preserve_emojis, max_segments, segment_limit_action) ==
  LET conversion == convert_to_gsm(message, preserve_emojis, max_segments)
      counted == calculate_segments(conversion.converted_message)
      kept == [rejected |-> FALSE, conversion |-> conversion,
               segments |-> counted.segments, encoding_type |-> counted.encoding]
  IN  IF max_segments # None /\ counted.segments > max_segments[1]
      THEN IF segment_limit_action = "reject"
           THEN [rejected |-> TRUE,
                 response |-> RejectResponse(counted.segments, max_segments,
                                             conversion, counted.encoding)]
           ELSE IF segment_limit_action = "truncate"
           THEN [rejected |-> FALSE] @@ TruncateConversion(conversion, max_segments)
           ELSE kept
      ELSE kept

\* analysis_result, with its segment_limit section when a limit is given.
AnalysisResult(request_body, a) ==
  LET max_segments == request_body.maxSegments
      segment_limit_action == request_body.segmentLimitAction
      base == [original |-> [message |-> request_body.message,
                             length |-> a.conversion.original_length,
                             has_unicode_chars |-> Len(a.conversion.replacements) > 0],
               processed |-> [message |-> a.conversion.converted_message,
                              length |-> a.conversion.converted_length,
                              segments |-> a.segments,
                              estimated_cost |-> a.segments,
                              encoding |-> a.encoding_type,
                              conversion_enabled |-> request_body.enableConversion],
               replacements |-> a.conversion.replacements]
      limit == [max_segments_allowed |-> max_segments[1],
                action |-> segment_limit_action,
                limit_exceeded |-> a.segments > max_segments[1]]
      truncation == IF "truncated" \in DOMAIN a.conversion
                    THEN limit @@ [truncated |-> TRUE,
                                   original_length |-> a.conversion.truncated_from,
                                   truncated_length |-> a.conversion.truncated_to]
                    ELSE limit
      warning == IF a.segments > max_segments[1] /\ segment_limit_action = "warn"
                 THEN truncation @@ [warning |-> "Message sent as more segments than preferred"]
                 ELSE truncation
  IN  IF max_segments # None
      THEN base @@ [segment_limit |-> warning]
      ELSE base

ValidationError(error) ==
  [statusCode |-> 400, body |-> [error |-> error, action |-> "validation_error"]]

\* The handler up to analysis_result: either a response it returns at once
\* (returned) or the conversion and analysis it goes on with.
HandlerAnalysis(request_body) ==
  IF request_body.phoneNumber = "" \/ request_body.message = <<>>
  THEN [returned |-> TRUE,
        response |-> ValidationError("phoneNumber and message are required parameters")]
  ELSE LET a == IF ~request_body.enableConversion
                THEN [rejected |-> FALSE] @@ UnconvertedAnalysis(request_body.message)
                ELSE ConvertedAnalysis(request_body.message, request_body.preserveEmojis,
                                       request_body.maxSegments,
                                       request_body.segmentLimitAction)
       IN  IF a.rejected
           THEN [returned |-> TRUE, response |-> a.response]
           ELSE [returned |-> FALSE, conversion |-> a.conversion,
                 analysis_result |-> AnalysisResult(request_body, a),
                 segments |-> a.segments]

\* The parameters send_text_message is called with.
SmsParams(request_body, conversion) ==
  LET sms_params == [DestinationPhoneNumber |-> request_body.phoneNumber,
                     MessageBody |-> conversion.converted_message,
                     OriginationIdentity |-> request_body.originationNumber]
  IN  IF request_body.configurationSetName # ""
      THEN sms_params @@ [ConfigurationSetName |-> request_body.configurationSetName]
      ELSE sms_params

\* The handler from the dry-run test on, for the analysis h it has made: its
\* response and the calls of send_text_message it made.  send_ok is whether
\* that call returned (a MessageId) or raised, which the outer except turns
\* into the 500 response.
HandlerDelivery_NoCeiling(request_body, h, send_ok) ==
  IF h.returned THEN [response |-> h.response, sent |-> <<>>]
  ELSE IF request_body.dryRun
  THEN [response |-> [statusCode |-> 200,
                      body |-> [action |-> "analysis_only"] @@ h.analysis_result],
        sent |-> <<>>]
  ELSE IF request_body.originationNumber = ""
  THEN [response |-> ValidationError("originationNumber is required for sending SMS"),
        sent |-> <<>>]
  ELSE [response |-> IF send_ok
                     THEN [statusCode |-> 200,
                           body |-> [action |-> "message_sent",
                                     message_id |-> "MessageId"]
                                    @@ h.analysis_result]
                     ELSE [statusCode |-> 500,
                           body |-> [error |-> "send_text_message failed",
                                     error_type |-> "ClientError",
                                     action |-> "error"]],
        sent |-> << SmsParams(request_body, h.conversion) >>]

HandlerDelivery_OriginationFirst(request_body, h, send_ok) ==
  IF h.returned THEN [response |-> h.response, sent |-> <<>>]
  ELSE IF request_body.originationNumber = ""
  THEN [response |-> ValidationError("originationNumber is required for sending SMS"),
        sent |-> <<>>]
  ELSE IF request_body.dryRun
  THEN [response |-> [statusCode |-> 200,
                      body |-> [action |-> "analysis_only"] @@ h.analysis_result],
        sent |-> <<>>]
  ELSE IF Len(h.conversion.converted_message) > 1600
  THEN [response |-> [statusCode |-> 400,
                      body |-> [error |-> "Message too long",
                                action |-> "validation_error",
                                message_length |-> Len(h.conversion.converted_message),
                                segments |-> h.segments]],
        sent |-> <<>>]
  ELSE [response |-> IF send_ok
                     THEN [statusCode |-> 200,
                           body |-> [action |-> "message_sent",
                                     message_id |-> "MessageId"]
                                    @@ h.analysis_result]
                     ELSE [statusCode |-> 500,
                           body |-> [error |-> "send_text_message failed",
                                     error_type |-> "ClientError",
                                     action |-> "error"]],
        sent |-> << SmsParams(request_body, h.conversion) >>]

HandlerDelivery(request_body, h, send_ok) ==
  IF h.returned THEN [response |-> h.response, sent |-> <<>>]
  ELSE IF request_body.dryRun
  THEN [response |-> [statusCode |-> 200,
                      body |-> [action |-> "analysis_only"] @@ h.analysis_result],
        sent |-> <<>>]
  ELSE IF request_body.originationNumber = ""
  THEN [response |-> ValidationError("originationNumber is required for sending SMS"),
        sent |-> <<>>]
  ELSE IF Len(h.conversion.converted_message) > 1600
  THEN [response |-> [statusCode |-> 400,
                      body |-> [error |-> "Message too long",
                                action |-> "validation_error",
                                message_length |-> Len(h.conversion.converted_message),
                                segments |-> h.segments]],
        sent |-> <<>>]
  ELSE [response |-> IF send_ok
                     THEN [statusCode |-> 200,
                           body |-> [action |-> "message_sent",
                                     message_id |-> "MessageId"]
                                    @@ h.analysis_result]
                     ELSE [statusCode |-> 500,
                           body |-> [error |-> "send_text_message failed",
                                     error_type |-> "ClientError",
                                     action |-> "error"]],
        sent |-> << SmsParams(request_body, h.conversion) >>]

\* lambda_handler(event, context) for the parsed request_body.
lambda_handler(request_body, send_ok) ==
  HandlerDelivery(request_body, HandlerAnalysis(request_body), send_ok)

\* ------------------------------------------------------------------------
\* Bounds of the model and the inputs drawn within them.
MaxWord == 2        \* longest text enumerated character by character
MaxSeg == 3         \* largest max_segments argument
Window == 1         \* run lengths are taken this close to each boundary

\* One or two characters of every kind the converter tells apart.
Alphabet ==
  { 65,       \* A       Basic, ASCII
    32,       \* space   Basic, ASCII
    233,      \* e-acute Basic, not ASCII
    91,       \* [       Extended, ASCII
    8364,     \* Euro    Extended, not ASCII
    96,       \* `       ASCII, not GSM, in the table
    9,        \* tab     ASCII, not GSM, not in the table
    8220,     \* left double quote: table, one character
    169,      \* copyright: table, three characters
    8203,     \* zero width space: table, empty string
    128640,   \* rocket: preserve list
    10084,    \* heavy black heart U+2764
    65039,    \* variation selector U+FE0F
    225,      \* a-acute: decomposes to a
    911,      \* Omega-tonos: decomposes to Omega (Basic, not ASCII)
    940,      \* alpha-tonos: decomposes to alpha (not GSM)
    769,      \* combining acute accent
    44032,    \* Hangul GA
    20013 }   \* CJK ideograph: nothing applies

Rep(c, n) == [i \in 1..n |-> c]

\* Every text of at most n characters over the alphabet.
Words(n) == UNION {[1..k -> Alphabet] : k \in 0..n}

\* Runs of one character whose length is a boundary of the segment count:
\* the single-part and multi-part capacities of GSM-7 (160, 153 units: A costs
\* one unit, [ two) and of UCS-2 (70, 67 characters); and 200, the length of
\* a documented example.
RunBoundaries ==
  { <<65, 160>>, <<65, 2 * 153>>, <<65, 3 * 153>>,
    <<91, 80>>, <<91, 153>>,
    <<233, 70>>, <<233, 2 * 67>>, <<233, 3 * 67>>,
    <<65, 70>>, <<65, 2 * 67>>,
    <<65, 200>> }
Runs == {Rep(r[1], r[2] + d) : r \in RunBoundaries, d \in (0 - Window)..Window}

\* A long text: a run followed by at most one character of the alphabet.
LongTexts == {r \o w : r \in Runs, w \in Words(1)}

\* Every character the tables of the source name, as a text of its own.
TableChars ==
  GSM_BASIC_CHARS \cup GSM_EXTENDED_CHARS \cup DOMAIN UNICODE_TO_GSM_MAP
    \cup UNION {{p[i] : i \in 1..Len(p)} : p \in PRESERVE_UNICODE_CHARS}

\* The documented examples: Hello "World"! with the smart quotes U+201C and
\* U+201D, and ten Euro signs.
SmartQuoted == <<72, 101, 108, 108, 111, 32, 8220, 87, 111, 114, 108, 100, 8221, 33>>
StraightQuoted == <<72, 101, 108, 108, 111, 32, 34, 87, 111, 114, 108, 100, 34, 33>>
TenEuros == <<8364, 8364, 8364, 8364, 8364, 8364, 8364, 8364, 8364, 8364>>
Examples == {SmartQuoted, TenEuros}
\* Runs of the copyright sign, which the table expands to three characters.
Expanding == {Rep(169, 70), Rep(169, 103)}

Texts == Words(MaxWord) \cup LongTexts \cup {<<c>> : c \in TableChars} \cup Examples
           \cup Expanding

\* What is appended to a text: a character or a run.
Suffixes == Words(1) \cup Runs

\* Texts to truncate: two runs of A around one space, the space placed about
\* four fifths of the way to a segment boundary (where the word-boundary test
\* changes its answer) or at the end of the part that is kept, and the whole
\* text about as long as the boundary or well beyond it; the same after a
\* leading space; and texts without any planned space.
SpaceAt ==
  UNION {{(4 * b) \div 5 + d : d \in (0 - 4 - Window)..(1 + Window)}
           \cup {b - 4, b - 3} : b \in {160 + j * 153 : j \in 0..(MaxSeg - 1)}}
LengthsToTruncate ==
  UNION {{b + d : d \in (0 - Window)..Window} \cup {b + 40}
           : b \in {160 + j * 153 : j \in 0..(MaxSeg - 1)}}
SpacedTexts ==
  UNION {{f \o Rep(65, at - Len(f)) \o <<SPACE>> \o Rep(65, n - at - 1) :
            f \in {<<>>, <<SPACE>>},
            n \in {l \in LengthsToTruncate : l > at + 1}}
           : at \in SpaceAt}
TruncationTexts == SpacedTexts \cup Words(1) \cup Runs

MaxSegmentsArgs == {None} \cup {Some(k) : k \in 0..MaxSeg}

\* Texts sent to the handler: a character, or a run at or just over a
\* boundary followed by nothing, a preserve-list character or a character the
\* table expands; the texts of two documented examples (400 Basic
\* characters; five segments against a limit of three); and texts at and
\* over the 1600 characters the handler accepts, one of them only once the
\* table has expanded its last character.
HandlerRuns == {Rep(r[1], r[2] + d) : r \in RunBoundaries, d \in 0..Window}
HandlerTails == {<<>>, <<128640>>, <<169>>}
HandlerTexts ==
  Words(1) \cup {r \o w : r \in HandlerRuns, w \in HandlerTails}
           \cup {Rep(65, 400), Rep(233, 400), Rep(65, 4 * 153 + 1)}
           \cup {Rep(65, 1600), Rep(65, 1601), Rep(65, 1598) \o <<169>>}

\* The fields of request_body the analysis reads, and those only the
\* delivery reads.  A request without phoneNumber is drawn with the other
\* fields at their defaults; a configurationSetName is drawn only with a
\* request that gets as far as the send, the one place that reads it.
AnalysisFields ==
  [phoneNumber : {"+15550100"},
   message : HandlerTexts,
   enableConversion : BOOLEAN,
   preserveEmojis : BOOLEAN,
   maxSegments : MaxSegmentsArgs,
   segmentLimitAction : {"reject", "truncate", "warn"}]
  \cup
  [phoneNumber : {""},
   message : Words(1),
   enableConversion : {TRUE},
   preserveEmojis : {FALSE},
   maxSegments : {None},
   segmentLimitAction : {"warn"}]
DeliveryFields ==
  [dryRun : BOOLEAN,
   originationNumber : {"", "+15550199"},
   configurationSetName : {""}]
  \cup
  [dryRun : {FALSE},
   originationNumber : {"+15550199"},
   configurationSetName : {"marketing"}]

\* Requests of the sender-ID utility: sender IDs that pass validate_input
\* (with and without separators) and that fail each of its tests, and lists
\* of at most MaxCountries country strings, among them a lower-case one, a
\* padded one and a blank one.
MaxCountries == 3   \* longest list of countries
SenderIds ==
  {<<77, 121, 66, 114, 97, 110, 100>>,
   <<109, 121, 95, 98, 114, 97, 110, 100, 45, 49>>,
   <<>>,
   <<84, 119, 101, 108, 118, 101, 67, 104, 97, 114, 115, 49>>,
   <<95>>,
   <<66, 97, 100, 33>>}
CountryStrings == {"us", "GB", " de ", " "}
CountryLists == UNION {[1..k -> CountryStrings] : k \in 0..MaxCountries}

\* ------------------------------------------------------------------------
VARIABLES
  pc,               \* what the engine was last asked to do
  message,          \* the text argument of that call
  preserve_emojis,  \* its preserve_emojis argument
  max_segments,     \* its max_segments argument
  conversion,       \* the dict convert_to_gsm returned; in the handler, its
                    \* local conversion when the analysis is complete
  analysis,         \* the pair calculate_segments returned
  reconversion,     \* convert_to_gsm of conversion's converted_message
  suffix,           \* the text appended to message
  appended,         \* calculate_segments of message + suffix
  request_body,     \* the request lambda_handler was invoked with
  response,         \* the response it returned
  sent,             \* the parameters of its send_text_message calls
  truncated,        \* the text truncate_message_to_segments returned
  maximizer_conversion,  \* the dict convert_to_gsm of maximizer.py returned
  maximizer_analysis,    \* the pair calculate_segments of maximizer.py returned
  sender_id,        \* event['sender_id'] of the sender-ID handler
  countries,        \* its list of countries, stripped and upper-cased
  requests,         \* the request_sender_id calls made on the provider
  results,          \* the results list of request_sender_id
  sender_response   \* the response the sender-ID handler returned

vars == <<pc, message, preserve_emojis, max_segments, conversion, analysis,
          reconversion, suffix, appended, request_body, response, sent,
          truncated, maximizer_conversion, maximizer_analysis,
          sender_id, countries, requests, results, sender_response>>
sender_vars == <<sender_id, countries, requests, results, sender_response>>
maximizer_vars == <<maximizer_conversion, maximizer_analysis>>
handler_vars == <<request_body, response, sent>>

NoDict == [none |-> TRUE]

Init ==
  /\ pc = "idle"
  /\ message = <<>>
  /\ preserve_emojis = FALSE
  /\ max_segments = None
  /\ conversion = NoDict
  /\ analysis = NoDict
  /\ reconversion = NoDict
  /\ suffix = <<>>
  /\ appended = NoDict
  /\ request_body = NoDict
  /\ response = NoDict
  /\ sent = <<>>
  /\ truncated = <<>>
  /\ maximizer_conversion = NoDict
  /\ maximizer_analysis = NoDict
  /\ sender_id = <<>>
  /\ countries = <<>>
  /\ requests = <<>>
  /\ results = <<>>
  /\ sender_response = NoDict

\* A caller converts a text.
ConvertToGsm ==
  /\ pc = "idle"
  /\ \E m \in Texts, p \in BOOLEAN, ms \in MaxSegmentsArgs :
       /\ message' = m
       /\ preserve_emojis' = p
       /\ max_segments' = ms
       /\ conversion' = convert_to_gsm(m, p, ms)
  /\ pc' = "converted"
  /\ UNCHANGED <<analysis, reconversion, suffix, appended, handler_vars, truncated, maximizer_vars, sender_vars>>

\* The converted text is analysed, as lambda_handler does right after the
\* conversion.
AnalyzeConverted ==
  /\ pc = "converted"
  /\ pc' = "analyzed"
  /\ analysis' = calculate_segments(conversion.converted_message)
  /\ UNCHANGED <<message, preserve_emojis, max_segments, conversion,
                 reconversion, suffix, appended, handler_vars, truncated, maximizer_vars, sender_vars>>

\* The converted text is converted again, preservation off, no limit.
Reconvert ==
  /\ pc = "converted"
  /\ pc' = "reconverted"
  /\ reconversion' = convert_to_gsm(conversion.converted_message, FALSE, None)
  /\ UNCHANGED <<message, preserve_emojis, max_segments, conversion,
                 analysis, suffix, appended, handler_vars, truncated, maximizer_vars, sender_vars>>

\* A caller analyses a text.
CalculateSegments ==
  /\ pc = "idle"
  /\ \E m \in Texts :
       /\ message' = m
       /\ analysis' = calculate_segments(m)
  /\ pc' = "counted"
  /\ UNCHANGED <<preserve_emojis, max_segments, conversion, reconversion,
                 suffix, appended, handler_vars, truncated, maximizer_vars, sender_vars>>

\* The analysed text grows by s and is analysed again.
AppendAndCalculate ==
  /\ pc = "counted"
  /\ \E s \in Suffixes :
       /\ suffix' = s
       /\ appended' = calculate_segments(message \o s)
  /\ pc' = "appended"
  /\ UNCHANGED <<message, preserve_emojis, max_segments, conversion,
                 analysis, reconversion, handler_vars, truncated, maximizer_vars, sender_vars>>

\* The handler is invoked with a request and returns.  Its analysis does not
\* read the delivery fields, so it is made once for each choice of the others.
LambdaHandler ==
  /\ pc = "idle"
  /\ \E core \in AnalysisFields :
       \E h \in {HandlerAnalysis(core)}, rest \in DeliveryFields, send_ok \in BOOLEAN :
         \E r \in {HandlerDelivery(core @@ rest, h, send_ok)} :
           /\ request_body' = core @@ rest
           /\ conversion' = IF h.returned THEN NoDict ELSE h.conversion
           /\ response' = r.response
           /\ sent' = r.sent
  /\ pc' = "returned"
  /\ UNCHANGED <<message, preserve_emojis, max_segments, analysis,
                 reconversion, suffix, appended, truncated,
                 maximizer_vars, sender_vars>>

\* A caller truncates a text to a number of segments.
TruncateMessage ==
  /\ pc = "idle"
  /\ \E m \in TruncationTexts, k \in 0..MaxSeg :
       /\ message' = m
       /\ max_segments' = Some(k)
       /\ truncated' = truncate_message_to_segments(m, k)
  /\ pc' = "truncated"
  /\ UNCHANGED <<preserve_emojis, conversion, analysis, reconversion, suffix,
                 appended, handler_vars, maximizer_vars, sender_vars>>

\* A caller converts and analyses a text with the functions of both files.
ConvertInBothFiles ==
  /\ pc = "idle"
  /\ \E m \in Texts, p \in BOOLEAN, ms \in MaxSegmentsArgs :
       /\ message' = m
       /\ preserve_emojis' = p
       /\ max_segments' = ms
       /\ conversion' = convert_to_gsm(m, p, ms)
       /\ analysis' = calculate_segments(m)
       /\ maximizer_conversion' = maximizer_convert_to_gsm(m, p, ms)
       /\ maximizer_analysis' = maximizer_calculate_segments(m)
  /\ pc' = "compared"
  /\ UNCHANGED <<reconversion, suffix, appended, handler_vars, truncated, sender_vars>>

\* The variables of the message handlers and their engine.
message_vars ==
  <<message, preserve_emojis, max_segments, conversion, analysis, reconversion,
    suffix, appended, handler_vars, truncated, maximizer_vars>>

\* The sender-ID handler is invoked: it reads the event and validates it; a
\* ValueError is answered 500 by the outer except, otherwise the loop of
\* request_sender_id starts.
SenderIdInvoke ==
  /\ pc = "idle"
  /\ \E sid \in SenderIds, raw \in CountryLists :
       \E cs \in {StrippedUpper(raw)} :
         /\ sender_id' = sid
         /\ countries' = cs
         /\ IF validate_input(sid, cs) # ""
            THEN /\ sender_response' =
                      [statusCode |-> 500, body |-> [error |-> validate_input(sid, cs)]]
                 /\ pc' = "sender_returned"
            ELSE /\ sender_response' = sender_response
                 /\ pc' = "requesting"
  /\ UNCHANGED <<requests, results, message_vars>>

\* One iteration of the loop of request_sender_id: the provider is called for
\* the next country and returns or raises.
RequestSenderId ==
  /\ pc = "requesting"
  /\ ~LoopDone(results, countries)
  /\ \E ok \in BOOLEAN :
       LET country == countries[Len(results) + 1]
       IN  /\ requests' = Append(requests,
                                 RequestParams(sender_id, country,
                                               <<"TRANSACTIONAL", "PROMOTIONAL">>))
           /\ results' = Append(results, CountryResult(country, ok))
  /\ UNCHANGED <<pc, sender_id, countries, sender_response, message_vars>>

\* The loop is over: the handler returns the results and their summary.
SenderIdReturn ==
  /\ pc = "requesting"
  /\ LoopDone(results, countries)
  /\ sender_response' = SummaryResponse(countries, results)
  /\ pc' = "sender_returned"
  /\ UNCHANGED <<sender_id, countries, requests, results, message_vars>>

NextSenderId ==
  \/ SenderIdInvoke
  \/ RequestSenderId
  \/ SenderIdReturn

NextConvert ==
  \/ ConvertToGsm
  \/ AnalyzeConverted
  \/ Reconvert

NextSegments ==
  \/ CalculateSegments
  \/ AppendAndCalculate

\* The converter alone, and the segment calculator alone.
SpecConvert == Init /\ [][NextConvert]_vars
SpecSegments == Init /\ [][NextSegments]_vars
\* The handler alone, and everything.
SpecHandler == Init /\ [][LambdaHandler]_vars
\* The truncation alone.
SpecTruncate == Init /\ [][TruncateMessage]_vars
\* The sender-ID utility alone.
SpecSenderId == Init /\ [][NextSenderId]_vars
\* The engines of the two files side by side.
SpecBothFiles == Init /\ [][ConvertInBothFiles]_vars
Next ==
  \/ NextConvert
  \/ NextSegments
  \/ LambdaHandler
  \/ TruncateMessage
  \/ ConvertInBothFiles
  \/ NextSenderId
Spec == Init /\ [][Next]_vars

\* ------------------------------------------------------------------------
\* Properties.

GsmSafe == GSM_BASIC_CHARS \cup GSM_EXTENDED_CHARS
Chars(text) == {text[i] : i \in 1..Len(text)}
PositiveOrAbsent(ms) == ms = None \/ ms[1] >= 1
\* Least k with k * per >= units.
CeilDiv(units, per) == CHOOSE k \in 0..units : (k - 1) * per < units /\ units <= k * per
\* The message is within the limit as convert_to_gsm is given it.
WithinLimit == max_segments # None /\ calculate_segments(message).segments <= max_segments[1]
\* A character of the output that is in the preserve list and in the input.
KeptPreserved(c) == preserve_emojis /\ <<c>> \in PRESERVE_UNICODE_CHARS /\ c \in Chars(message)

\* C1 as stated: for every text, preserve_emojis and max_segments (absent or
\* positive), every character of converted_message is GSM Basic or Extended
\* unless preserve_emojis is set and the character is a preserve-list member
\* of the input.
C1_AsStated ==
  pc = "converted" /\ PositiveOrAbsent(max_segments) =>
    \A c \in Chars(conversion.converted_message) : c \in GsmSafe \/ KeptPreserved(c)

\* C1 amended: the same, unless the text was auto-preserved (max_segments
\* given and the segment count of the input within it), where the input is
\* returned verbatim.
C1_OutputGsmSafe ==
  pc = "converted" /\ PositiveOrAbsent(max_segments) /\ ~WithinLimit =>
    \A c \in Chars(conversion.converted_message) : c \in GsmSafe \/ KeptPreserved(c)

C1_Witness ==
  /\ pc = "converted"
  /\ max_segments = Some(1)
  /\ ~WithinLimit
  /\ preserve_emojis
  /\ 128640 \in Chars(conversion.converted_message)
  /\ Len(message) > 70

\* C4 as stated: the converted text of every text is analysed as GSM-7,
\* unless preservation kept a character above code point 127 in the output.
C4_AsStated ==
  pc = "analyzed" =>
    \/ analysis.encoding = "GSM-7"
    \/ \E r \in Chars(conversion.replacements) :
         /\ "preserved" \in DOMAIN r
         /\ r.preserved

\* C5: with preservation off and no max_segments, converting the converted
\* text again returns it unchanged with no records.
C5_Idempotent ==
  pc = "reconverted" /\ ~preserve_emojis /\ max_segments = None =>
    /\ reconversion.converted_message = conversion.converted_message
    /\ reconversion.replacements = <<>>

C5_Witness ==
  /\ pc = "reconverted"
  /\ ~preserve_emojis
  /\ max_segments = None
  /\ Len(conversion.replacements) = 2
  /\ Len(conversion.converted_message) > Len(message)

\* C6: appending a string to a text never lowers its segment count.
C6_Monotone ==
  pc = "appended" => appended.segments >= analysis.segments

C6_Witness ==
  /\ pc = "appended"
  /\ analysis.encoding = "GSM-7"
  /\ appended.encoding = "UCS-2 (Unicode)"
  /\ 91 \in Chars(message)
  /\ analysis.segments = 2
  /\ appended.segments = 2

\* C7 as stated: a text of GSM Basic/Extended characters only is returned
\* unchanged with empty replacements, whatever preserve_emojis and
\* max_segments are.
C7_AsStated ==
  pc = "converted" /\ Chars(message) \subseteq GsmSafe =>
    /\ conversion.converted_message = message
    /\ conversion.replacements = <<>>

\* C7 amended: such a text is returned unchanged; replacements is empty
\* unless the text was auto-preserved, where it holds the one synthetic
\* record.
C7_GsmTextUnchanged ==
  pc = "converted" /\ Chars(message) \subseteq GsmSafe =>
    /\ conversion.converted_message = message
    /\ IF WithinLimit
       THEN /\ Len(conversion.replacements) = 1
            /\ conversion.replacements[1].original = ALL_UNICODE
       ELSE conversion.replacements = <<>>

C7_Witness ==
  /\ pc = "converted"
  /\ Chars(message) \subseteq GsmSafe
  /\ {233, 91} \subseteq Chars(message)
  /\ max_segments = Some(1)
  /\ ~WithinLimit
  /\ preserve_emojis

\* C8: when max_segments is given and the segment count of the input is
\* within it, the input is returned as it is with exactly one record
\* (position -1, preserved) and auto_preserved set; otherwise auto_preserved
\* is false.
C8_AutoPreserve ==
  pc = "converted" =>
    IF WithinLimit
    THEN /\ conversion.converted_message = message
         /\ Len(conversion.replacements) = 1
         /\ conversion.replacements[1].position = -1
         /\ conversion.replacements[1].preserved
         /\ conversion.auto_preserved
    ELSE ~conversion.auto_preserved

C8_Witness ==
  /\ pc = "converted"
  /\ max_segments = Some(2)
  /\ calculate_segments(message).segments = 2
  /\ conversion.auto_preserved
  /\ 20013 \in Chars(conversion.converted_message)

\* C9: GSM-7 counts a unit per character plus one per Extended character, one
\* segment up to 160 units, else ceil(units / 153); UCS-2 counts a unit per
\* character, one segment up to 70, else ceil(units / 67); at least one
\* segment always.
C9_SegmentFormula ==
  pc = "counted" =>
    LET extended == Cardinality({i \in 1..Len(message) : message[i] \in GSM_EXTENDED_CHARS})
        gsm == analysis.encoding = "GSM-7"
        units == IF gsm THEN Len(message) + extended ELSE Len(message)
        single == IF gsm THEN 160 ELSE 70
        part == IF gsm THEN 153 ELSE 67
    IN  /\ analysis.encoding \in {"GSM-7", "UCS-2 (Unicode)"}
        /\ analysis.segments = (IF units <= single THEN 1 ELSE CeilDiv(units, part))
        /\ analysis.segments >= 1

C9_Witness ==
  /\ pc = "counted"
  /\ message = Rep(65, 200)
  /\ analysis = [segments |-> 2, encoding |-> "GSM-7"]

\* The handler reported a truncation.
ReportsTruncation ==
  /\ pc = "returned"
  /\ response.statusCode = 200
  /\ "segment_limit" \in DOMAIN response.body
  /\ "truncated" \in DOMAIN response.body.segment_limit
EndsWithEllipsis(text) ==
  Len(text) >= 3 /\ SubSeq(text, Len(text) - 2, Len(text)) = Ellipsis

\* C2 as stated: whenever the truncate action is taken, the segment count
\* recomputed on the truncated text is at most max_segments, for every
\* max_segments >= 1.
C2_AsStated ==
  ReportsTruncation /\ request_body.maxSegments[1] >= 1 =>
    response.body.processed.segments <= request_body.maxSegments[1]

\* C3 as stated: a text of 400 GSM Basic characters under max_segments = 2
\* and action truncate becomes a text of at most 313 characters that ends in
\* "..." and counts at most 2 segments.
C3_AsStated ==
  /\ ReportsTruncation
  /\ Len(request_body.message) = 400
  /\ Chars(request_body.message) \subseteq GSM_BASIC_CHARS
  /\ request_body.maxSegments = Some(2)
  =>
  /\ Len(response.body.processed.message) <= 313
  /\ EndsWithEllipsis(response.body.processed.message)
  /\ response.body.processed.segments <= 2

\* The handler returned for a request that passed validation, with
\* conversion on, a limit given and the action named.
LimitedBy(action) ==
  /\ pc = "returned"
  /\ request_body.phoneNumber # ""
  /\ request_body.message # <<>>
  /\ request_body.enableConversion
  /\ request_body.maxSegments # None
  /\ request_body.segmentLimitAction = action
\* The segment count and encoding of the converted text of the request.
ConvertedCount ==
  calculate_segments(
    convert_to_gsm(request_body.message, request_body.preserveEmojis,
                   request_body.maxSegments).converted_message)

\* C10: with conversion on, a limit given, the converted text over the limit
\* and action 'reject', the handler returns 400 segment_limit_exceeded with
\* the computed segment count and encoding, and never calls
\* send_text_message.
C10_Reject ==
  LimitedBy("reject") =>
    \A counted \in {ConvertedCount} :
      counted.segments > request_body.maxSegments[1] =>
        /\ response.statusCode = 400
        /\ response.body.action = "segment_limit_exceeded"
        /\ response.body.current_segments = counted.segments
        /\ response.body.encoding = counted.encoding
        /\ sent = <<>>

C10_Witness ==
  /\ LimitedBy("reject")
  /\ ConvertedCount.segments > request_body.maxSegments[1]
  /\ request_body.maxSegments = Some(3)
  /\ ~request_body.dryRun
  /\ request_body.originationNumber # ""
  /\ response.body.current_segments = 5

\* C11 as stated: for every request that gives maxSegments with action
\* 'reject', whatever enableConversion is, no text whose segment count
\* exceeds maxSegments is passed to send_text_message.
C11_AsStated ==
  /\ pc = "returned"
  /\ request_body.maxSegments # None
  /\ request_body.segmentLimitAction = "reject"
  => \A i \in 1..Len(sent) :
       calculate_segments(sent[i].MessageBody).segments <= request_body.maxSegments[1]

\* The converted text of the request.
ConvertedText ==
  convert_to_gsm(request_body.message, request_body.preserveEmojis,
                 request_body.maxSegments).converted_message

\* C12: with conversion on, a limit given, the converted text over the limit
\* and action 'warn', the text goes on unmodified, the reported segment count
\* and encoding are those of the over-limit text, limit_exceeded is true and
\* segment_limit carries a warning; the handler goes on to delivery instead
\* of returning the limit error.
C12_Warn ==
  LimitedBy("warn") =>
    \A text \in {ConvertedText} : \A counted \in {calculate_segments(text)} :
      counted.segments > request_body.maxSegments[1] =>
        /\ response.body.action # "segment_limit_exceeded"
        /\ response.statusCode = 200 =>
             /\ response.body.processed.message = text
             /\ response.body.processed.segments = counted.segments
             /\ response.body.processed.encoding = counted.encoding
             /\ response.body.segment_limit.limit_exceeded
             /\ "warning" \in DOMAIN response.body.segment_limit
             /\ "truncated" \notin DOMAIN response.body.segment_limit
        /\ (/\ ~request_body.dryRun
            /\ request_body.originationNumber # ""
            /\ Len(text) <= 1600)
           => /\ Len(sent) = 1
              /\ sent[1].MessageBody = text

C12_Witness ==
  /\ LimitedBy("warn")
  /\ request_body.maxSegments = Some(2)
  /\ response.statusCode = 200
  /\ response.body.action = "message_sent"
  /\ response.body.processed.segments = 3
  /\ "warning" \in DOMAIN response.body.segment_limit
  /\ Len(sent) = 1
  /\ sent[1].MessageBody = ConvertedText
  /\ ConvertedText # request_body.message

\* The symbol p (one or more code points) occurs in text.
Occurs(p, text) ==
  \E i \in 1..(Len(text) - Len(p) + 1) : SubSeq(text, i, i + Len(p) - 1) = p

\* C13 as stated: with preserve_emojis true and no auto-preserve, every
\* symbol of the preserve list that occurs in the input appears verbatim in
\* the output with a record marked preserved.
C13_AsStated ==
  pc = "converted" /\ preserve_emojis /\ ~WithinLimit =>
    \A p \in PRESERVE_UNICODE_CHARS :
      Occurs(p, message) =>
        /\ Occurs(p, conversion.converted_message)
        /\ \E r \in Chars(conversion.replacements) :
             /\ r.original = p
             /\ r.replacement = p
             /\ "preserved" \in DOMAIN r
             /\ r.preserved

\* A character that the loop of convert_to_gsm can only answer with '?': not
\* GSM-safe, not kept by preservation, not in the table, and without a single
\* GSM-safe base character once decomposed and stripped of combining marks.
Unmappable(c) ==
  /\ c \notin GsmSafe
  /\ ~(preserve_emojis /\ <<c>> \in PRESERVE_UNICODE_CHARS)
  /\ c \notin DOMAIN UNICODE_TO_GSM_MAP
  /\ LET base == StripCombining(c)
     IN  ~(Len(base) = 1 /\ base[1] \in GsmSafe)

\* The number of output characters a character of the input accounts for: the
\* length of its table value when the table is consulted, else one.
Width(c) ==
  IF c \in GsmSafe \/ (preserve_emojis /\ <<c>> \in PRESERVE_UNICODE_CHARS) THEN 1
  ELSE IF c \in DOMAIN UNICODE_TO_GSM_MAP THEN Len(UNICODE_TO_GSM_MAP[c])
  ELSE 1

\* The output characters that text[lo..hi] accounts for.
RECURSIVE WidthSum(_, _, _)
WidthSum(text, lo, hi) ==
  IF lo > hi THEN 0
  ELSE IF lo = hi THEN Width(text[lo])
  ELSE LET mid == (lo + hi) \div 2
       IN  WidthSum(text, lo, mid) + WidthSum(text, mid + 1, hi)

\* C14: convert_to_gsm returns a result for every input, and (when
\* substitution is applied) every unmappable character of the input accounts
\* for exactly one '?' of the output, at the place its predecessors leave it,
\* and for exactly one record, whose replacement is '?'.
C14_QuestionMark ==
  pc = "converted" /\ ~WithinLimit =>
    /\ conversion.converted_length = Len(conversion.converted_message)
    /\ conversion.original_length = Len(message)
    /\ Len(conversion.converted_message) = WidthSum(message, 1, Len(message))
    /\ \A i \in 1..Len(message) :
         Unmappable(message[i]) =>
           /\ conversion.converted_message[WidthSum(message, 1, i - 1) + 1] = 63
           /\ Cardinality({j \in 1..Len(conversion.replacements) :
                             conversion.replacements[j].position = i - 1}) = 1
           /\ \A j \in 1..Len(conversion.replacements) :
                conversion.replacements[j].position = i - 1 =>
                  /\ conversion.replacements[j].original = <<message[i]>>
                  /\ conversion.replacements[j].replacement = QuestionMark

C14_Witness ==
  /\ pc = "converted"
  /\ ~WithinLimit
  /\ message = <<169, 940>>
  /\ conversion.converted_message = <<40, 67, 41, 63>>
  /\ Len(conversion.replacements) = 2
  /\ conversion.replacements[2].replacement = QuestionMark

\* The conversion of Hello "World"! with smart quotes, preservation off and
\* no max_segments has been made.
ConvertedSmartQuoted ==
  /\ pc = "converted"
  /\ message = SmartQuoted
  /\ ~preserve_emojis
  /\ max_segments = None

\* C15 as stated: that conversion gives the text with straight quotes,
\* exactly two records, original_length 15 and converted_length 15.
C15_AsStated ==
  ConvertedSmartQuoted =>
    /\ conversion.converted_message = StraightQuoted
    /\ Len(conversion.replacements) = 2
    /\ conversion.original_length = 15
    /\ conversion.converted_length = 15

\* C15 amended: that conversion gives the text with straight quotes and
\* exactly two records, one per smart quote (positions 6 and 12), and both
\* lengths are 14, the number of characters of the text.
C15_SmartQuotes ==
  ConvertedSmartQuoted =>
    /\ conversion.converted_message = StraightQuoted
    /\ conversion.replacements =
         << [original |-> <<8220>>, replacement |-> <<34>>, position |-> 6],
            [original |-> <<8221>>, replacement |-> <<34>>, position |-> 12] >>
    /\ conversion.original_length = 14
    /\ conversion.converted_length = 14

C15_Witness ==
  /\ ConvertedSmartQuoted
  /\ conversion.converted_message = StraightQuoted
  /\ Len(conversion.replacements) = 2
  /\ conversion.original_length = Len(SmartQuoted)

\* C16: calculate_segments reports GSM-7 exactly when every character has a
\* code point in 0..127 and UCS-2 otherwise, whether or not the characters
\* are GSM Basic or Extended; a text with a character above 127 is counted a
\* unit per character with 70/67 capacities.
C16_AsciiTest ==
  pc = "counted" =>
    LET ascii == \A c \in Chars(message) : c \in 0..127
    IN  /\ analysis.encoding = "GSM-7" <=> ascii
        /\ ~ascii =>
             /\ analysis.encoding = "UCS-2 (Unicode)"
             /\ analysis.segments =
                  (IF Len(message) <= 70 THEN 1 ELSE CeilDiv(Len(message), 67))

C16_Witness ==
  /\ pc = "counted"
  /\ Chars(message) \subseteq GsmSafe
  /\ 233 \in Chars(message)
  /\ Len(message) = 71
  /\ analysis = [segments |-> 2, encoding |-> "UCS-2 (Unicode)"]

\* C17 as stated: a text of GSM Extended characters only is analysed as
\* GSM-7 with two units per character, so that ten Euro signs are 20 units,
\* GSM-7, one segment.
C17_AsStated ==
  pc = "counted" /\ message # <<>> /\ Chars(message) \subseteq GSM_EXTENDED_CHARS =>
    LET units == 2 * Len(message)
    IN  /\ analysis.encoding = "GSM-7"
        /\ analysis.segments = (IF units <= 160 THEN 1 ELSE CeilDiv(units, 153))

\* The budget of truncate_message_to_segments, and a truncation that cut:
\* max_segments is at least 1 and the text is longer than the budget.
Budget == 160 + (max_segments[1] - 1) * 153
Cut ==
  /\ pc = "truncated"
  /\ max_segments[1] >= 1
  /\ Len(message) > Budget
\* The zero-based index of the last space of the first Budget - 3 characters.
LastSpace == rfind(SubSeq(message, 1, Budget - 3), SPACE)

\* C18 as stated: a text longer than the budget is cut to budget - 3
\* characters, and the cut moves back to the last space of that prefix exactly
\* when the index of that space is at least (budget - 3) - 0.2 * budget;
\* otherwise it stays at budget - 3.
C18_AsStated ==
  Cut =>
    truncated =
      (IF LastSpace >= 0 /\ 5 * LastSpace >= 5 * (Budget - 3) - Budget
       THEN SubSeq(message, 1, LastSpace)
       ELSE SubSeq(message, 1, Budget - 3)) \o Ellipsis

\* C18 amended: the cut moves back to the last space of that prefix exactly
\* when the index of that space is greater than 0.8 * budget; otherwise it
\* stays at budget - 3.
C18_WordBoundary ==
  Cut =>
    truncated =
      (IF 5 * LastSpace > 4 * Budget
       THEN SubSeq(message, 1, LastSpace)
       ELSE SubSeq(message, 1, Budget - 3)) \o Ellipsis

C18_Witness ==
  /\ Cut
  /\ max_segments = Some(2)
  /\ LastSpace = 251
  /\ Len(truncated) = 254
  /\ message[1] = SPACE

\* C19: for max_segments at least 1, a text no longer than the budget
\* 160 + (max_segments - 1) * 153 is returned unchanged; a longer one gives
\* p + "..." with p a prefix of the text of at most budget - 3 characters, so
\* the result is no longer than the budget, shorter than the text, and ends
\* with "...".
C19_Truncate ==
  pc = "truncated" /\ max_segments[1] >= 1 =>
    IF Len(message) <= Budget
    THEN truncated = message
    ELSE LET n == Len(truncated) - 3
         IN  /\ n \in 0..(Budget - 3)
             /\ truncated = SubSeq(message, 1, n) \o Ellipsis
             /\ Len(truncated) <= Budget
             /\ Len(truncated) < Len(message)
             /\ EndsWithEllipsis(truncated)

C19_Witness ==
  /\ Cut
  /\ max_segments = Some(3)
  /\ Len(message) = 467
  /\ Len(truncated) = 466
  /\ SPACE \in Chars(message)

\* C20: when substitution is applied, replacements holds exactly one record
\* for each character of the input that is not GSM Basic or Extended and none
\* for the others, in strictly increasing order of position, and each
\* position is the zero-based index of its character in the input, whatever
\* the lengths of the replacements before it.
C20_Records ==
  pc = "converted" /\ ~WithinLimit =>
    LET recs == conversion.replacements
        outside == {i \in 1..Len(message) : message[i] \notin GsmSafe}
    IN  /\ Len(recs) = Cardinality(outside)
        /\ \A j \in 1..Len(recs) :
             /\ recs[j].position + 1 \in outside
             /\ recs[j].original = <<message[recs[j].position + 1]>>
        /\ \A j \in 1..(Len(recs) - 1) : recs[j].position < recs[j + 1].position

C20_Witness ==
  /\ pc = "converted"
  /\ ~WithinLimit
  /\ message = <<8203, 169>>
  /\ conversion.converted_message = <<40, 67, 41>>
  /\ Len(conversion.replacements) = 2
  /\ conversion.replacements[1].position = 0
  /\ conversion.replacements[2].position = 1

\* A record the table branch of the loop appended.
TableRecord(r) ==
  /\ "preserved" \notin DOMAIN r
  /\ Len(r.original) = 1
  /\ r.original[1] \in DOMAIN UNICODE_TO_GSM_MAP
\* The keys whose table value is the empty string (lines 309, 314, 316).
Removed == {8203, 8288, 65279}

\* C21 as stated: every value of the substitution table, as the conversion
\* of each of its keys records it, is a non-empty string of GSM Basic or
\* Extended characters.
C21_AsStated ==
  pc = "converted" /\ ~WithinLimit =>
    \A r \in Chars(conversion.replacements) :
      TableRecord(r) =>
        /\ r.replacement = UNICODE_TO_GSM_MAP[r.original[1]]
        /\ r.replacement # <<>>
        /\ Chars(r.replacement) \subseteq GsmSafe

\* C21 amended: every value of the table is a string of GSM Basic or
\* Extended characters, empty exactly for the zero width space, the word
\* joiner and the zero width no-break space, which are removed.
C21_TableValues ==
  pc = "converted" /\ ~WithinLimit =>
    \A r \in Chars(conversion.replacements) :
      TableRecord(r) =>
        /\ r.replacement = UNICODE_TO_GSM_MAP[r.original[1]]
        /\ r.replacement = <<>> <=> r.original[1] \in Removed
        /\ Chars(r.replacement) \subseteq GsmSafe

C21_Witness ==
  /\ pc = "converted"
  /\ ~WithinLimit
  /\ message = <<169, 8203>>
  /\ conversion.converted_message = <<40, 67, 41>>
  /\ conversion.replacements[2].replacement = <<>>

\* C22 as stated: for every text, preserve flag and max_segments,
\* convert_to_gsm and calculate_segments of maximizer.py return what those of
\* message-maximizer.py return.
C22_AsStated ==
  pc = "compared" =>
    /\ maximizer_conversion = conversion
    /\ maximizer_analysis = analysis

\* The text the handler goes on with after its analysis (the message as it
\* is, converted, or truncated); empty when it returned before.
ProcessedText ==
  IF "converted_message" \in DOMAIN conversion
  THEN conversion.converted_message
  ELSE <<>>

\* C23: on every path no text longer than 1600 characters is passed to
\* send_text_message; a request that gets as far as the send with such a
\* text (valid, not a dry run, with an originationNumber, not rejected by the
\* limit) is answered 400 validation_error instead.
C23_LengthCeiling ==
  pc = "returned" =>
    /\ \A i \in 1..Len(sent) : Len(sent[i].MessageBody) <= 1600
    /\ (~request_body.dryRun /\ request_body.originationNumber # "") =>
         \A text \in {ProcessedText} :
           Len(text) > 1600
           => /\ response.statusCode = 400
              /\ response.body.action = "validation_error"
              /\ response.body.message_length = Len(text)
              /\ sent = <<>>

C23_Witness ==
  /\ pc = "returned"
  /\ ~request_body.dryRun
  /\ request_body.originationNumber # ""
  /\ request_body.enableConversion
  /\ Len(request_body.message) = 1599
  /\ Len(ProcessedText) = 1601
  /\ response.statusCode = 400
  /\ response.body.action = "validation_error"
  /\ sent = <<>>

\* C24: in request_sender_id one provider request is attempted per country, in
\* input order, whatever requests failed before; results holds one entry per
\* country in input order with Status 'Success' or 'Failed'; the loop ends
\* only when every country has been tried; and the summary of the handler
\* satisfies successful + failed = total.
C24_Isolation ==
  pc \in {"requesting", "sender_returned"} /\ validate_input(sender_id, countries) = "" =>
    /\ Len(requests) = Len(results)
    /\ Len(results) <= Len(countries)
    /\ \A j \in 1..Len(results) :
         /\ requests[j].IsoCountryCode = upper(countries[j])
         /\ requests[j].SenderId = sender_id
         /\ results[j].Country = countries[j]
         /\ results[j].Status \in {"Success", "Failed"}
    /\ pc = "sender_returned" =>
         /\ Len(results) = Len(countries)
         /\ sender_response.statusCode = 200
         /\ sender_response.body.results = results
         /\ sender_response.body.summary.total = Len(countries)
         /\ sender_response.body.summary.successful =
              Cardinality({j \in 1..Len(results) : results[j].Status = "Success"})
         /\ sender_response.body.summary.failed =
              Cardinality({j \in 1..Len(results) : results[j].Status = "Failed"})
         /\ sender_response.body.summary.successful
              + sender_response.body.summary.failed
              = sender_response.body.summary.total

C24_Witness ==
  /\ pc = "sender_returned"
  /\ countries = <<"US", "GB", "DE">>
  /\ Len(requests) = 3
  /\ results[1].Status = "Failed"
  /\ results[2].Status = "Success"
  /\ results[3].Status = "Failed"
  /\ sender_response.body.summary = [total |-> 3, successful |-> 1, failed |-> 2]

\* The handler returned for a valid request with conversion on and a limit
\* given, and the unmodified message is within the limit: the test on which
\* convert_to_gsm auto-preserves it.
AutoPreservedRequest ==
  /\ \E action \in {"reject", "truncate", "warn"} : LimitedBy(action)
  /\ AutoPreserves(calculate_segments(request_body.message).segments,
                   request_body.maxSegments)

\* C25: when convert_to_gsm auto-preserves the message, the limit policy does
\* not fire, whatever segmentLimitAction is: the request is not rejected, the
\* text is not truncated, and limit_exceeded is false.
C25_AutoPreservedPasses ==
  AutoPreservedRequest =>
    /\ response.body.action # "segment_limit_exceeded"
    /\ sent # <<>> => sent[1].MessageBody = request_body.message
    /\ response.statusCode = 200 =>
         /\ response.body.processed.message = request_body.message
         /\ ~response.body.segment_limit.limit_exceeded
         /\ "truncated" \notin DOMAIN response.body.segment_limit
         /\ "warning" \notin DOMAIN response.body.segment_limit

C25_Witness ==
  /\ AutoPreservedRequest
  /\ conversion.auto_preserved
  /\ request_body.segmentLimitAction = "reject"
  /\ request_body.maxSegments = Some(2)
  /\ response.statusCode = 200
  /\ response.body.action = "message_sent"
  /\ response.body.processed.segments = 2
  /\ 128640 \in Chars(sent[1].MessageBody)

\* C26 as stated: whenever convert_to_gsm applies substitution with
\* max_segments given, segments_after_conversion is at most
\* segments_if_preserved.
C26_AsStated ==
  pc = "converted" /\ max_segments # None /\ ~conversion.auto_preserved =>
    conversion.segments_after_conversion <= conversion.segments_if_preserved

\* The family of an encoding label: the handler's inline count labels GSM-7
\* as 'GSM-7 (ASCII only)'.
EncodingFamily(encoding) ==
  IF encoding = "UCS-2 (Unicode)" THEN "UCS-2" ELSE "GSM-7"

\* C27 as stated: with enableConversion false, the segment count and the
\* encoding family the handler reports for a message are those
\* calculate_segments returns for that message.
C27_AsStated ==
  /\ pc = "returned"
  /\ request_body.phoneNumber # ""
  /\ request_body.message # <<>>
  /\ ~request_body.enableConversion
  /\ response.statusCode = 200
  => /\ response.body.processed.segments =
          calculate_segments(request_body.message).segments
     /\ EncodingFamily(response.body.processed.encoding) =
          EncodingFamily(calculate_segments(request_body.message).encoding)

\* C28 as stated: whenever the handler reports a message as truncated, the
\* text was shortened: truncated_length < original_length and the processed
\* message ends with "...".
C28_AsStated ==
  ReportsTruncation =>
    /\ response.body.segment_limit.truncated_length
         < response.body.segment_limit.original_length
    /\ EndsWithEllipsis(response.body.processed.message)

\* C29 as stated: original.has_unicode_chars is true exactly when the
\* message has a character outside the GSM Basic and Extended sets, with or
\* without maxSegments, conversion on or off.
C29_AsStated ==
  pc = "returned" /\ response.statusCode = 200 =>
    response.body.original.has_unicode_chars
      <=> \E c \in Chars(request_body.message) : c \notin GsmSafe

\* The request is rejected by the segment limit.
RejectedByLimit ==
  /\ request_body.enableConversion
  /\ request_body.maxSegments # None
  /\ request_body.segmentLimitAction = "reject"
  /\ ConvertedCount.segments > request_body.maxSegments[1]

\* C30: a request with dryRun true never reaches send_text_message; when it
\* has phoneNumber and message and is not rejected by the segment limit, it
\* is answered 200 analysis_only, with or without originationNumber.
C30_DryRun ==
  pc = "returned" /\ request_body.dryRun =>
    /\ sent = <<>>
    /\ (/\ request_body.phoneNumber # ""
        /\ request_body.message # <<>>
        /\ ~RejectedByLimit)
       => /\ response.statusCode = 200
          /\ response.body.action = "analysis_only"

C30_Witness ==
  /\ pc = "returned"
  /\ request_body.dryRun
  /\ request_body.originationNumber = ""
  /\ request_body.segmentLimitAction = "reject"
  /\ request_body.maxSegments = Some(1)
  /\ request_body.enableConversion
  /\ ~RejectedByLimit
  /\ response.statusCode = 200
  /\ response.body.action = "analysis_only"
  /\ sent = <<>>
====
